---- MODULE Spec2Model ----
(***************************************************************************)
(* ADF to TIFF converter: the browser application (app.js), its GDAL based *)
(* revision, and the two revisions of converter.js, as one state machine.  *)
(*                                                                         *)
(* One action is one run-to-completion step of the JavaScript event loop:  *)
(* a UI event handler, or the continuation of an async function from the  *)
(* settling of the promise it awaits up to the next promise that needs an  *)
(* external event (script load, FileReader, GDAL call, timer).             *)
(***************************************************************************)
EXTENDS Integers, Sequences, FiniteSets, TLC

\* ---------------------------------------------------------------- bounds
MaxJobs == 2        \* calls ever started (convertToTiff, or direct parseAdfFiles)
MaxJobsFs == 1      \* the same, when the "fs" revision of converter.js is loaded
MaxSel == 2         \* files in one selection / drop
MaxEvents == 2      \* handleFiles and removeFile events in one run

\* ------------------------------------------------------------ file names
FileNames == {"hdr.adf", "HDR.ADF", "w001001.adf", "notes.txt"}

\* String.prototype.toLowerCase on the names above
toLowerCase(n) == IF n = "HDR.ADF" THEN "hdr.adf" ELSE n

\* name.endsWith('.adf'), on a lower-cased name
endsWithAdf(n) == n \in {"hdr.adf", "w001001.adf"}

\* a raster-data file (w001001.adf or similar), by lower-cased name
isRasterData(n) == n = "w001001.adf"

Range(s) == {s[i] : i \in 1..Len(s)}

SeqsUpTo(S, n) == UNION {[1..k -> S] : k \in 0..n}

\* the FileList values a selection or a drop can deliver: distinct names
Selections ==
    {s \in SeqsUpTo(FileNames, MaxSel) :
        \A i, k \in 1..Len(s) : i # k => s[i] # s[k]}

RECURSIVE filterAdf(_)
\* Array.from(files).filter(file => file.name.toLowerCase().endsWith('.adf'))
filterAdf(s) ==
    IF s = <<>> THEN <<>>
    ELSE IF endsWithAdf(toLowerCase(Head(s)))
         THEN <<Head(s)>> \o filterAdf(Tail(s))
         ELSE filterAdf(Tail(s))

\* Array.prototype.splice(index, 1), index 1-based here
splice(s, i) == [k \in 1..(Len(s) - 1) |-> IF k < i THEN s[k] ELSE s[k + 1]]

\* uploadedFiles.some(f => f.name.toLowerCase() === 'hdr.adf')
hasHdr(files) == \E i \in 1..Len(files) : toLowerCase(files[i]) = "hdr.adf"

\* ------------------------------------------------------- errors, messages
\* A thrown or rejected value: an Error with a message, or a DOM Event
\* (reader.onerror = reject and script.onerror = reject pass the event).
\* stage records where it was raised.
Err(stage, msg) == [type |-> "Error", message |-> <<msg>>, stage |-> stage]
Evt(stage) == [type |-> "Event", message |-> <<>>, stage |-> stage]
\* no value
NoRej == [type |-> "none", message |-> <<>>, stage |-> "none"]

\* error.message as string concatenation sees it
MessageOf(e) == IF e.type = "Error" THEN e.message ELSE <<"undefined">>

\* ------------------------------------------------------------------ blobs
\* owner: the job whose code built the Blob; src: the job whose files its
\* bytes were derived from; by: the converter that produced the bytes.
NoBlob == [owner |-> 0, src |-> 0, by |-> "none"]
Blob(owner, src, by) == [owner |-> owner, src |-> src, by |-> by]

\* --------------------------------------------------------------- messages
MsgMissingHdrUI == "Missing hdr.adf file. Please upload all ADF files from your dataset."
MsgMissingHdr == "Missing hdr.adf file"
MsgSelectValid == "Please select valid ADF files"
MsgErrorConverting == "Error converting file: "
MsgGdalFailed == "GDAL conversion failed: "
MsgBothFailed == "Failed to convert ADF to TIFF. GDAL error: "
MsgFallbackError == ". Fallback error: "
MsgEnsureAll == ". Please ensure you have uploaded all ADF files from the dataset."
MsgLoadFailed == "Failed to load GDAL.js from CDN"
MsgOpenFailed == "Failed to open ADF dataset. Please ensure all ADF files are uploaded."
MsgOpenFailedFs == "Failed to open ADF dataset. The files may be corrupted or incomplete."
MsgCreateFailed == "Failed to create output TIFF file"
MsgTranslateFailed == "Translation failed"
MsgOutputEmpty == "Output file is empty"
MsgReadFailed == "Failed to read file"
\* the message of an exception thrown by the GDAL library itself
MsgLibrary == "<message of the GDAL library's exception>"

\* ---------------------------------------------------------------- rasters
MaxPx == 1          \* pixels of a raster the model follows: the first ones, row-major
MaxExit == 8        \* largest exit code of a failed run of the Python script

\* column and row counts of the grids on the user's disk
Dims == {<<2, 3>>, <<512, 512>>}

\* the two cell types of an ArcInfo binary grid, with sample pixel values
\* (a Float32 cell holds only values a 32-bit float represents)
SampleValues(type) == IF type = "Int32" THEN {7, 2^24 + 1} ELSE {7}

\* the raster an ADF file set encodes
Grids ==
    UNION {{[cols |-> d[1], rows |-> d[2], type |-> t, px |-> p] :
                p \in [1..MaxPx -> SampleValues(t)]} :
           d \in Dims, t \in {"Int32", "Float32"}}

\* what Math.random() * 255 leaves in a Uint8Array cell: 0..254
RandomBytes == {0, 254}

RECURSIVE Ulp(_, _)
\* spacing of the 32-bit floats around v >= 0 (24 bits of mantissa)
Ulp(v, u) == IF v < (2^24) * u THEN u ELSE Ulp(v, 2 * u)

\* storing the integer v >= 0 in a Float32Array cell: round to nearest, ties to even
toFloat32(v) ==
    LET u == Ulp(v, 1)
        q == v \div u
        r == v % u
    IN  IF 2 * r < u THEN q * u
        ELSE IF 2 * r > u THEN (q + 1) * u
        ELSE IF q % 2 = 0 THEN q * u ELSE (q + 1) * u

\* ------------------------------------------------------------ TIFF bytes
\* DataView.setUint16 / setUint32 with littleEndian = true
setUint16(v) == <<v % 256, (v \div 256) % 256>>
setUint32(v) == <<v % 256, (v \div 256) % 256, (v \div 65536) % 256, (v \div (2^24)) % 256>>

\* writeIfdEntry(view, offset, tag, type, count, value): the 12 bytes written
writeIfdEntry(tag, type, count, value) ==
    setUint16(tag) \o setUint16(type) \o setUint32(count) \o setUint32(value)

\* A blob's content: bytes is the file up to the pixel data (header and
\* IFD), dataLen the length of the pixel data, px its first MaxPx samples
\* as a reader decodes them, size the length of the whole file where the
\* code fixes it, srs whether the file carries a spatial reference.

\* variant of createSimpleTiff: the dimensions, the cell type and the
\* pixels are taken from the files read
createSimpleTiffFromFiles(files, random) ==
    [bytes |-> setUint16(18761) \o setUint16(42) \o setUint32(8)
               \o setUint16(3)
               \o writeIfdEntry(256, 3, 1, files.cols)
               \o writeIfdEntry(257, 3, 1, files.rows)
               \o writeIfdEntry(258, 3, 1, 32)
               \o setUint32(0),
     dataLen |-> files.cols * files.rows * 4, px |-> files.px,
     size |-> 8 + 42 + files.cols * files.rows * 4, srs |-> "unset"]

\* SimpleAdfReader.createSimpleTiff(): files is this.files, random the
\* values Math.random() * 255 stored in imageData
createSimpleTiff(files, random) ==
    LET width == 512
        height == 512
        samplesPerPixel == 1
        bitsPerSample == 8
        header == setUint16(18761) \o setUint16(42) \o setUint32(8)
        imageLength == width * height
        ifdEntries == 12
        ifdSize == 2 + (ifdEntries * 12) + 4
        ifd == setUint16(ifdEntries)
               \o writeIfdEntry(256, 3, 1, width)
               \o writeIfdEntry(257, 3, 1, height)
               \o writeIfdEntry(258, 3, 1, bitsPerSample)
               \o writeIfdEntry(259, 3, 1, 1)
               \o writeIfdEntry(262, 3, 1, 1)
               \o writeIfdEntry(273, 4, 1, 8 + ifdSize)
               \o writeIfdEntry(277, 3, 1, samplesPerPixel)
               \o writeIfdEntry(278, 3, 1, height)
               \o writeIfdEntry(279, 4, 1, imageLength)
               \o writeIfdEntry(282, 5, 1, 72)
               \o writeIfdEntry(283, 5, 1, 72)
               \o writeIfdEntry(296, 3, 1, 2)
               \o setUint32(0)
    IN  [bytes |-> header \o ifd, dataLen |-> imageLength, px |-> random,
         size |-> Len(header) + Len(ifd) + imageLength, srs |-> "unset"]

\* the first bytes of a grid's hdr.adf: the magic "GRID1.2" and a NUL
hdrAdfBytes == <<71, 82, 73, 68, 49, 46, 50, 0>>

\* processAdfFiles of src/app.js: new Blob([arrayBuffer]) of hdr.adf as read
rawHeaderBlob(files) ==
    [bytes |-> hdrAdfBytes, dataLen |-> 0, px |-> <<>>, size |-> Len(hdrAdfBytes),
     srs |-> "unset"]

\* translateOptions of src/converter.js and createOptions of its FS revision
translateOptions ==
    <<"-of", "GTiff", "-co", "COMPRESS=LZW", "-co", "TILED=YES",
      "-co", "BIGTIFF=IF_NEEDED", "/output.tif">>
createOptions == {"COMPRESS=LZW", "TILED=YES", "BIGTIFF=IF_NEEDED", "PROFILE=GeoTIFF"}

\* the creation options (-co) in a gdal_translate argument list
CreationOptions(args) ==
    {args[i + 1] : i \in {k \in 1..(Len(args) - 1) : args[k] = "-co"}}

\* GDAL's GTiff writer on a small raster: a classic little-endian TIFF
\* whose tags follow the creation options; samples are 32 bits wide,
\* integer (SampleFormat 2) or float (3); tiles are 256 x 256.
GTiff(cols, rows, type, px, options, prj) ==
    LET compression == IF "COMPRESS=LZW" \in options THEN 5
                       ELSE IF "COMPRESS=DEFLATE" \in options THEN 8 ELSE 1
        layout == IF "TILED=YES" \in options
                  THEN writeIfdEntry(322, 3, 1, 256) \o writeIfdEntry(323, 3, 1, 256)
                  ELSE writeIfdEntry(278, 3, 1, rows)
        ifdEntries == IF "TILED=YES" \in options THEN 8 ELSE 7
        ifd == setUint16(ifdEntries)
               \o writeIfdEntry(256, 3, 1, cols)
               \o writeIfdEntry(257, 3, 1, rows)
               \o writeIfdEntry(258, 3, 1, 32)
               \o writeIfdEntry(259, 3, 1, compression)
               \o writeIfdEntry(277, 3, 1, 1)
               \o layout
               \o writeIfdEntry(339, 3, 1, IF type = "Int32" THEN 2 ELSE 3)
               \o setUint32(0)
    IN  [bytes |-> setUint16(18761) \o setUint16(42) \o setUint32(8) \o ifd,
         dataLen |-> cols * rows * 4, px |-> px,
         srs |-> IF prj THEN "set" ELSE "unset"]

\* Gdal.translate(dataset, translateOptions): cell type and values are kept
gdalTranslate(grid, args, prj) ==
    GTiff(grid.cols, grid.rows, grid.type, grid.px, CreationOptions(args), prj)

\* the FS revision: driver.create(..., gdal.GDT_Float32, createOptions), then
\* every band goes through a Float32Array
createFloat32Copy(grid, options, prj) ==
    GTiff(grid.cols, grid.rows, "Float32",
          [i \in 1..Len(grid.px) |-> toFloat32(grid.px[i])], options, prj)

\* ------------------------------------------------------------------ state
VARIABLES
    appBuild,           \* "basic": src/app.js; "gdal": the GDAL revision of app.js
    convBuild,          \* "translate": src/converter.js; "fs": its FS/driver revision
    uploadedFiles,      \* let uploadedFiles = []
    convertedBlob,      \* let convertedBlob = null
    convertBtnDisabled, \* convertBtn.disabled
    progressVisible,    \* progressContainer.style.display = 'block'
    progressPercent,    \* progressFill.textContent
    downloadVisible,    \* downloadSection.style.display = 'block'
    downloadHref,       \* downloadBtn.href (the blob the object URL refers to)
    errorVisible,       \* errorMessage.style.display = 'block'
    errorText,          \* errorMessage.textContent
    gdalDefined,        \* typeof window.initGdalJs (or Gdal) !== 'undefined'
    scriptsAppended,    \* GDAL script elements appended to document.head
    initCalls,          \* calls of window.initGdalJs(...) (or Gdal())
    outputTif,          \* job whose raster the file at outputPath holds, 0: none
    fileItems,          \* rows of fileList, each with a remove button
    jobs,               \* the async calls in flight and settled, by job number
    events,             \* handleFiles / removeFile events so far
    disk,               \* disk[j]: the raster encoded by the files handed to call j
    rnd,                \* rnd[j]: what Math.random() * 255 yields during call j
    batPc,              \* convert_adf.bat: where the script is ("off": not run)
    batArg,             \* convert_adf.bat: %~1
    errorlevel,         \* convert_adf.bat: ERRORLEVEL of the command interpreter
    pyResult            \* convert_adf.bat: how the run of adf_to_geotiff.py ended

build == <<appBuild, convBuild>>
bat == <<batPc, batArg, errorlevel, pyResult>>
\* what no handler of the page writes
outside == <<build, disk, rnd, bat>>
ui == <<convertBtnDisabled, progressVisible, progressPercent, downloadVisible,
        downloadHref, errorVisible, errorText>>
win == <<gdalDefined, scriptsAppended, initCalls, outputTif>>
vars == <<outside, uploadedFiles, fileItems, convertedBlob, ui, win, jobs, events>>

JobIds == 1..MaxJobs

\* A job is one call of convertToTiff (kind "ui"), one direct call of
\* SimpleAdfReader.parseAdfFiles (kind "direct") or one direct call of
\* AdfToTiffConverter.convertAdfToTiff on a new converter (kind "convert"),
\* with the locals of the async functions it is inside.
IdleJob ==
    [pc |-> "idle", kind |-> "ui",
     given |-> <<>>,     \* the elements of `files` when the call was made
     files |-> <<>>,     \* the array `files` refers to, once it is no longer uploadedFiles
     aliased |-> FALSE,  \* `files` is the very array uploadedFiles refers to
     idx |-> 0,          \* elements the running for...of loop has taken
     names |-> {},       \* names read by the running loop (fileBuffers / this.files keys)
     ds |-> "none",      \* the input dataset: none, open, closed
     out |-> "none",     \* the translated / created output dataset
     errs |-> <<>>,      \* every value thrown or rejected inside the job, in order
     reads |-> 0,        \* FileReader reads started
     gdal |-> FALSE,     \* the job constructed an AdfToTiffConverter
     gdalMsg |-> <<>>,   \* gdalError.message in processAdfFiles
     cur |-> "",         \* name of the file the pending FileReader is reading
     ctor |-> "none",    \* the un-awaited initializeGdal() of the "fs" constructor
     rej |-> NoRej,      \* the value convertAdfToTiff rejected with
     blob |-> NoBlob]    \* the blob the converter returned

\* the array a job's `files` parameter refers to
FilesOf(job) == IF job.aliased THEN uploadedFiles ELSE job.files

Started == {j \in JobIds : jobs[j].pc # "idle"}

Raise(job, e) == [job EXCEPT !.errs = Append(@, e)]

\* The call has settled: its parameters and loop locals are gone; what it
\* raised, opened, read and returned stays on record.
Settled(job, pc) ==
    [job EXCEPT !.pc = pc, !.files = <<>>, !.aliased = FALSE, !.idx = 0,
                !.names = {}, !.cur = "", !.gdalMsg = <<>>]

\* calls that may be started under the loaded revision
JobLimit == IF convBuild = "fs" THEN MaxJobsFs ELSE MaxJobs

\* ------------------------------------------------- convertToTiff, the tail
\* The job is suspended at an await, the progress bar showing pct.
Suspend(j, job, pc, pct) ==
    /\ jobs' = [jobs EXCEPT ![j] = [job EXCEPT !.pc = pc]]
    /\ progressPercent' = IF job.kind = "ui" THEN pct ELSE progressPercent
    /\ UNCHANGED <<convertedBlob, downloadVisible, downloadHref, errorVisible, errorText>>

Await(j, job, pc, pct) ==
    /\ Suspend(j, job, pc, pct)
    /\ UNCHANGED <<convertBtnDisabled, progressVisible>>

\* convertToTiff after `await processAdfFiles(...)` returned tiffBlob
ConvertResolves(j, job, tiffBlob) ==
    /\ jobs' = [jobs EXCEPT ![j] = [Settled(job, "timer") EXCEPT !.blob = tiffBlob]]
    /\ convertedBlob' = tiffBlob
    /\ downloadHref' = tiffBlob
    /\ progressPercent' = 100
    /\ UNCHANGED <<convertBtnDisabled, progressVisible, downloadVisible,
                   errorVisible, errorText>>

\* ConvertCatch with the success path's showDownload() run on failure too
ConvertCatchShowsDownload(j, job, message) ==
    /\ jobs' = [jobs EXCEPT ![j] = Settled(job, "failed")]
    /\ errorVisible' = TRUE
    /\ errorText' = <<MsgErrorConverting>> \o message
    /\ progressVisible' = FALSE
    /\ convertBtnDisabled' = FALSE
    /\ downloadVisible' = TRUE
    /\ progressPercent' = IF job.kind = "ui" /\ job.pc = "idle" THEN 10 ELSE progressPercent
    /\ UNCHANGED <<convertedBlob, downloadHref>>

\* the catch block of convertToTiff: showError(...); hideProgress(). The
\* percentage stays where the try block left it: at 10 when the header
\* check threw, before the first await.
ConvertCatch(j, job, message) ==
    /\ jobs' = [jobs EXCEPT ![j] = Settled(job, "failed")]
    /\ errorVisible' = TRUE
    /\ errorText' = <<MsgErrorConverting>> \o message
    /\ progressVisible' = FALSE
    /\ convertBtnDisabled' = FALSE
    /\ progressPercent' = IF job.kind = "ui" /\ job.pc = "idle" THEN 10 ELSE progressPercent
    /\ UNCHANGED <<convertedBlob, downloadHref, downloadVisible>>

\* --------------------------------------- SimpleAdfReader.parseAdfFiles
\* parseAdfFiles returned a blob: to convertToTiff through processAdfFiles,
\* or to the direct caller.
ParseResolves(j, job, blob) ==
    IF job.kind = "ui"
    THEN ConvertResolves(j, job, blob)
    ELSE /\ jobs' = [jobs EXCEPT ![j] = [Settled(job, "resolved") EXCEPT !.blob = blob]]
         /\ UNCHANGED <<convertedBlob, ui>>

\* variant of ParseRejects: the fallback's error is swallowed and the job
\* resolves without a blob
ParseRejectsSwallowed(j, job, fallbackError) == ParseResolves(j, job, NoBlob)

\* parseAdfFiles threw fallbackError: processAdfFiles throws the error that
\* names both failures, or the direct caller gets the rejection.
ParseRejects(j, job, fallbackError) ==
    IF job.kind = "ui"
    THEN ConvertCatch(j, job,
            <<MsgBothFailed>> \o job.gdalMsg \o <<MsgFallbackError>>
                \o MessageOf(fallbackError) \o <<MsgEnsureAll>>)
    ELSE /\ jobs' = [jobs EXCEPT ![j] = Settled(job, "rejected")]
         /\ UNCHANGED <<convertedBlob, ui>>

\* after the loop: if (!this.files['hdr.adf']) throw ...; return createSimpleTiff()
ParseFinish(j, job) ==
    IF "hdr.adf" \in job.names
    THEN ParseResolves(j, job, Blob(j, j, "simple"))
    ELSE ParseRejects(j, Raise(job, Err("fallback", MsgMissingHdr)),
                      Err("fallback", MsgMissingHdr))

\* one turn of `for (const file of files)`: the array iterator compares its
\* index with the array's current length, then the file is read
ParseNext(j, job) ==
    LET files == FilesOf(job) IN
    IF job.idx < Len(files)
    THEN Await(j, [job EXCEPT !.idx = @ + 1, !.reads = @ + 1,
                              !.cur = files[job.idx + 1]], "fb_read", 50)
    ELSE ParseFinish(j, job)

\* ------------------------------------------ processAdfFiles, GDAL revision
\* catch (gdalError): updateProgress(50, ...); new SimpleAdfReader().parseAdfFiles(files)
Fallback(j, job, gdalMessage) ==
    ParseNext(j, [job EXCEPT !.gdalMsg = gdalMessage, !.idx = 0, !.names = {}])

\* variant of GdalResolves: the GDAL result is dropped and the fallback
\* runs although the GDAL converter succeeded
GdalResolvesIntoFallback(j, job, blob) == Fallback(j, job, <<>>)

\* converter.convertAdfToTiff(files) resolved: updateProgress(85, ...); return,
\* or the direct caller gets the blob
GdalResolves(j, job, blob) ==
    IF job.kind = "ui"
    THEN ConvertResolves(j, job, blob)
    ELSE /\ jobs' = [jobs EXCEPT ![j] = [Settled(job, "resolved") EXCEPT !.blob = blob]]
         /\ UNCHANGED <<convertedBlob, ui>>

\* convertAdfToTiff rejected with value: processAdfFiles catches it as
\* gdalError, or the direct caller gets it
CallRejects(j, job, value) ==
    IF job.kind = "ui"
    THEN Fallback(j, [job EXCEPT !.rej = value], MessageOf(value))
    ELSE /\ jobs' = [jobs EXCEPT ![j] = [Settled(job, "rejected") EXCEPT !.rej = value]]
         /\ UNCHANGED <<convertedBlob, ui>>

\* the catch block of convertAdfToTiff: the error is wrapped and rethrown,
\* throw new Error(`GDAL conversion failed: ${error.message}`)
GdalRejects(j, job, error) ==
    CallRejects(j, Raise(job, error),
                [type |-> "Error", message |-> <<MsgGdalFailed>> \o MessageOf(error),
                 stage |-> "convert"])

\* ------------------------------------ AdfToTiffConverter.convertAdfToTiff
\* what the ADF driver needs to open the grid: the header and raster data
DatasetComplete(names) ==
    /\ \E n \in names : toLowerCase(n) = "hdr.adf"
    /\ \E n \in names : isRasterData(toLowerCase(n))

FsOutcomes == {"openNull", "createNull", "copyThrows", "closeOutThrows",
               "closeInThrows", "readFileThrows", "cleanupThrows", "ok"}

\* The "fs" revision from gdal.open(dirPath) to resolve(blob): synchronous,
\* so one step; o is how far it gets.
FsConvert(j, job, o) ==
    LET opened == [job EXCEPT !.ds = "open"]
        created == [job EXCEPT !.ds = "open", !.out = "open"]
        outClosed == [job EXCEPT !.ds = "open", !.out = "closed"]
        closed == [job EXCEPT !.ds = "closed", !.out = "closed"]
    IN  CASE o = "openNull" -> GdalRejects(j, job, Err("open", MsgOpenFailedFs))
          [] o = "createNull" -> GdalRejects(j, opened, Err("create", MsgCreateFailed))
          [] o = "copyThrows" -> GdalRejects(j, created, Err("copy", MsgLibrary))
          [] o = "closeOutThrows" -> GdalRejects(j, created, Err("close", MsgLibrary))
          [] o = "closeInThrows" -> GdalRejects(j, outClosed, Err("close", MsgLibrary))
          [] o = "readFileThrows" -> GdalRejects(j, closed, Err("output", MsgLibrary))
          [] o = "cleanupThrows" ->
                GdalResolves(j, Raise(closed, Err("cleanup", MsgLibrary)), Blob(j, j, "gdal"))
          [] OTHER -> GdalResolves(j, closed, Blob(j, j, "gdal"))

\* one turn of the loop that reads the files, then the call that opens them
GdalLoopNext(j, job) ==
    LET files == FilesOf(job) IN
    IF job.idx < Len(files)
    THEN Await(j, [job EXCEPT !.idx = @ + 1, !.reads = @ + 1,
                              !.cur = files[job.idx + 1]], "read", 70)
    ELSE IF convBuild = "translate"
    THEN Await(j, job, "open", 70)
    ELSE \E o \in FsOutcomes :
            /\ o = "openNull" \/ DatasetComplete(job.names)
            /\ FsConvert(j, job, o)

\* ---------------------------------------------------------------- initial
\* The page as loaded: the globals of app.js, nothing selected, nothing
\* shown, the GDAL script not yet requested.
InitPage ==
    /\ uploadedFiles = <<>>
    /\ fileItems = 0
    /\ convertedBlob = NoBlob
    /\ convertBtnDisabled = TRUE
    /\ progressVisible = FALSE
    /\ progressPercent = 0
    /\ downloadVisible = FALSE
    /\ downloadHref = NoBlob
    /\ errorVisible = FALSE
    /\ errorText = <<>>
    /\ gdalDefined = FALSE
    /\ scriptsAppended = 0
    /\ initCalls = 0
    /\ outputTif = 0
    /\ jobs = [j \in JobIds |-> IdleJob]
    /\ events = 0

\* convert_adf.bat is not running
BatOff ==
    /\ batPc = "off"
    /\ batArg = ""
    /\ errorlevel = 0
    /\ pyResult = "none"

\* one grid on the disk, and one outcome of Math.random
OneGrid ==
    /\ disk = [j \in JobIds |->
                 [cols |-> 2, rows |-> 3, type |-> "Int32", px |-> [i \in 1..MaxPx |-> 7]]]
    /\ rnd = [j \in JobIds |-> [i \in 1..MaxPx |-> 0]]

\* src/app.js, or its GDAL revision with src/converter.js
Init ==
    /\ appBuild \in {"basic", "gdal"}
    /\ convBuild = "translate"
    /\ InitPage
    /\ OneGrid
    /\ BatOff

\* the GDAL revision of app.js with the "fs" revision of converter.js
InitFs ==
    /\ appBuild = "gdal"
    /\ convBuild = "fs"
    /\ InitPage
    /\ OneGrid
    /\ BatOff

\* ---------------------------------------------------------------- UI events
\* variant of handleFiles: the new files are appended to the selection
HandleFilesAppends(sel) ==
    /\ events < MaxEvents
    /\ events' = events + 1
    /\ uploadedFiles' = uploadedFiles \o filterAdf(sel)
    /\ jobs' = jobs
    /\ IF Len(uploadedFiles') = 0
       THEN /\ errorVisible' = TRUE
            /\ errorText' = <<MsgSelectValid>>
            /\ UNCHANGED <<fileItems, convertBtnDisabled>>
       ELSE /\ fileItems' = Len(uploadedFiles')
            /\ convertBtnDisabled' = FALSE
            /\ errorVisible' = FALSE
            /\ UNCHANGED errorText
    /\ UNCHANGED <<outside, convertedBlob, progressVisible, progressPercent,
                   downloadVisible, downloadHref, win>>

\* handleFiles(files): a file selection or a drop
HandleFiles(sel) ==
    /\ events < MaxEvents
    /\ events' = events + 1
    /\ uploadedFiles' = filterAdf(sel)
    \* the array the running jobs hold is no longer the one uploadedFiles names
    /\ jobs' = [j \in JobIds |->
                    IF jobs[j].aliased
                    THEN [jobs[j] EXCEPT !.aliased = FALSE, !.files = uploadedFiles]
                    ELSE jobs[j]]
    /\ IF Len(uploadedFiles') = 0
       THEN /\ errorVisible' = TRUE
            /\ errorText' = <<MsgSelectValid>>
            /\ UNCHANGED <<fileItems, convertBtnDisabled>>
       ELSE /\ fileItems' = Len(uploadedFiles')
            /\ convertBtnDisabled' = FALSE
            /\ errorVisible' = FALSE
            /\ UNCHANGED errorText
    /\ UNCHANGED <<outside, convertedBlob, progressVisible, progressPercent,
                   downloadVisible, downloadHref, win>>

\* removeFile(index): the remove button of row i (index = i - 1)
RemoveFile(i) ==
    /\ events < MaxEvents
    /\ events' = events + 1
    /\ i \in 1..fileItems
    /\ uploadedFiles' = IF i <= Len(uploadedFiles) THEN splice(uploadedFiles, i)
                        ELSE uploadedFiles
    /\ fileItems' = Len(uploadedFiles')
    /\ convertBtnDisabled' = IF Len(uploadedFiles') = 0 THEN TRUE ELSE convertBtnDisabled
    /\ UNCHANGED <<outside, convertedBlob, progressVisible, progressPercent,
                   downloadVisible, downloadHref, errorVisible, errorText, win, jobs>>

\* -------------------------------------------------------------- job starts
NextJob == CHOOSE j \in JobIds \ Started : \A k \in JobIds \ Started : j <= k

\* processAdfFiles of the GDAL revision up to its first await:
\* new AdfToTiffConverter(); await converter.initializeGdal()
StartGdal(j, job) ==
    LET made == [job EXCEPT !.gdal = TRUE] IN
    IF convBuild = "translate"
    THEN IF gdalDefined
         THEN /\ Suspend(j, made, "initjs", 40)
              /\ initCalls' = initCalls + 1
              /\ UNCHANGED <<gdalDefined, scriptsAppended, outputTif>>
         ELSE /\ Suspend(j, made, "load", 40)
              /\ scriptsAppended' = scriptsAppended + 1
              /\ UNCHANGED <<gdalDefined, initCalls, outputTif>>
    ELSE IF gdalDefined
         THEN /\ Suspend(j, [made EXCEPT !.ctor = "ok"], "instantiate", 70)
              /\ initCalls' = initCalls + 1
              /\ UNCHANGED <<gdalDefined, scriptsAppended, outputTif>>
         \* the constructor's initializeGdal() and the awaited one both
         \* find Gdal undefined and each appends a script element
         ELSE /\ Suspend(j, [made EXCEPT !.ctor = "pending"], "load", 40)
              /\ scriptsAppended' = scriptsAppended + 2
              /\ UNCHANGED <<gdalDefined, initCalls, outputTif>>

\* processAdfFiles of src/app.js: the header file is read, nothing else
StartBasic(j, job) ==
    LET files == FilesOf(job)
        k == CHOOSE i \in 1..Len(files) :
                /\ toLowerCase(files[i]) = "hdr.adf"
                /\ \A m \in 1..(i - 1) : toLowerCase(files[m]) # "hdr.adf"
    IN  /\ Suspend(j, [job EXCEPT !.reads = 1, !.cur = files[k]], "basic_read", 30)
        /\ UNCHANGED win

\* convertToTiff up to its first await: a click on the convert button
ClickConvert ==
    /\ ~convertBtnDisabled
    /\ Cardinality(Started) < JobLimit
    /\ LET j == NextJob
           job == [IdleJob EXCEPT !.kind = "ui", !.aliased = TRUE, !.given = uploadedFiles]
           missing == Err("check", MsgMissingHdrUI)
       IN  IF ~hasHdr(uploadedFiles)
           THEN /\ ConvertCatch(j, Raise(job, missing), MessageOf(missing))
                /\ UNCHANGED win
           ELSE /\ convertBtnDisabled' = TRUE
                /\ progressVisible' = TRUE
                /\ IF appBuild = "basic" THEN StartBasic(j, job) ELSE StartGdal(j, job)
    /\ UNCHANGED <<outside, uploadedFiles, fileItems, events>>

\* new SimpleAdfReader().parseAdfFiles(files), called by other code than app.js
DirectParse(sel) ==
    /\ Cardinality(Started) < JobLimit
    /\ ParseNext(NextJob, [IdleJob EXCEPT !.kind = "direct", !.files = sel, !.given = sel])
    /\ UNCHANGED <<outside, uploadedFiles, fileItems, win, events>>

\* new AdfToTiffConverter().convertAdfToTiff(files), called by other code
\* than app.js: the constructor, then initializeGdal() up to its first await
DirectConvert(sel) ==
    /\ Cardinality(Started) < JobLimit
    /\ StartGdal(NextJob, [IdleJob EXCEPT !.kind = "convert", !.files = sel, !.given = sel])
    /\ UNCHANGED <<outside, uploadedFiles, fileItems, convertBtnDisabled,
                   progressVisible, events>>

\* ------------------------------------------------------- GDAL script, init
\* script.onload / script.onerror of the element the awaited loadGdalScript appended
ScriptSettles(j, ok) ==
    /\ jobs[j].pc = "load"
    /\ LET job == jobs[j] IN
       IF ok
       THEN /\ gdalDefined' = TRUE
            /\ initCalls' = initCalls + 1
            /\ UNCHANGED <<scriptsAppended, outputTif>>
            /\ IF convBuild = "translate"
               THEN Await(j, job, "initjs", 40)
               ELSE Await(j, job, "instantiate", 70)
       ELSE /\ UNCHANGED win
            /\ LET e == IF convBuild = "translate" THEN Err("load", MsgLoadFailed)
                                                   ELSE Evt("load")
               IN  \* thrown by the initializeGdal() that processAdfFiles awaits itself
                   IF job.kind = "ui" THEN Fallback(j, Raise(job, e), MessageOf(e))
                   \* inside the try block of convertAdfToTiff
                   ELSE IF convBuild = "translate" THEN GdalRejects(j, job, e)
                   \* `if (!this.gdalReady) await this.initializeGdal()`, before
                   \* the try block: the event itself is the rejection
                   ELSE CallRejects(j, Raise(job, e), e)
    /\ UNCHANGED <<outside, uploadedFiles, fileItems, events>>

\* onload / onerror of the element the "fs" constructor's initializeGdal()
\* appended; nothing awaits or catches that promise
CtorScriptSettles(j, ok) ==
    /\ jobs[j].ctor = "pending"
    /\ IF ok
       THEN /\ gdalDefined' = TRUE
            /\ jobs' = [jobs EXCEPT ![j].ctor = "ok"]
       ELSE /\ UNCHANGED gdalDefined
            /\ jobs' = [jobs EXCEPT ![j] = Raise([@ EXCEPT !.ctor = "failed"], Evt("ctor"))]
    /\ UNCHANGED <<outside, uploadedFiles, fileItems, convertedBlob, ui,
                   scriptsAppended, initCalls, outputTif, events>>

\* `this.Gdal = await window.initGdalJs({...})` settles ("translate")
InitGdalJsSettles(j, ok) ==
    /\ jobs[j].pc = "initjs"
    /\ LET job == jobs[j]
           e == Err("init", MsgLibrary)
       IN  IF ok
           THEN GdalLoopNext(j, [job EXCEPT !.idx = 0, !.names = {}])
           \* thrown by the initializeGdal() that processAdfFiles awaits itself
           ELSE IF job.kind = "ui" THEN Fallback(j, Raise(job, e), MessageOf(e))
           \* inside the try block of convertAdfToTiff
           ELSE GdalRejects(j, job, e)
    /\ UNCHANGED <<outside, uploadedFiles, fileItems, win, events>>

\* `const gdal = await Gdal()` settles ("fs"); then FS.mkdir(dirPath),
\* whose exception is caught and logged
GdalInstanceSettles(j, ok, mkdirOk) ==
    /\ jobs[j].pc = "instantiate"
    /\ LET job == jobs[j]
           made == IF mkdirOk THEN job ELSE Raise(job, Err("mkdir", MsgLibrary))
       IN  IF ok
           THEN GdalLoopNext(j, [made EXCEPT !.idx = 0, !.names = {}])
           ELSE /\ mkdirOk
                /\ GdalRejects(j, job, Err("init", MsgLibrary))
    /\ UNCHANGED <<outside, uploadedFiles, fileItems, win, events>>

\* ------------------------------------------------------------- file reads
\* reader.onload / reader.onerror in AdfToTiffConverter.fileToArrayBuffer
FileLoaded(j, ok) ==
    /\ jobs[j].pc = "read"
    /\ LET job == jobs[j] IN
       IF ok
       THEN GdalLoopNext(j, [job EXCEPT !.names = @ \cup {job.cur}])
       ELSE GdalRejects(j, job, Evt("read"))
    /\ UNCHANGED <<outside, uploadedFiles, fileItems, win, events>>

\* reader.onload / reader.onerror in SimpleAdfReader.fileToArrayBuffer
FallbackFileLoaded(j, ok) ==
    /\ jobs[j].pc = "fb_read"
    /\ LET job == jobs[j] IN
       IF ok
       THEN ParseNext(j, [job EXCEPT !.names = @ \cup {toLowerCase(job.cur)}])
       ELSE ParseRejects(j, Raise(job, Evt("fallback")), Evt("fallback"))
    /\ UNCHANGED <<outside, uploadedFiles, fileItems, win, events>>

\* reader.onload / reader.onerror in processAdfFiles of src/app.js
BasicFileLoaded(j, ok) ==
    /\ jobs[j].pc = "basic_read"
    /\ LET job == jobs[j]
           e == Err("basic", MsgReadFailed)
       IN  IF ok
           THEN ConvertResolves(j, job, Blob(j, j, "basic"))
           ELSE ConvertCatch(j, Raise(job, e), MessageOf(e))
    /\ UNCHANGED <<outside, uploadedFiles, fileItems, win, events>>

\* ------------------------------- convertAdfToTiff of src/converter.js
\* `await Gdal.open([dirPath], fileBuffers)` settles
OpenSettles(j, o) ==
    /\ jobs[j].pc = "open"
    /\ LET job == jobs[j] IN
       CASE o = "ok" -> /\ DatasetComplete(job.names)
                        /\ Await(j, [job EXCEPT !.ds = "open"], "info", 70)
         [] o = "empty" -> GdalRejects(j, job, Err("open", MsgOpenFailed))
         [] OTHER -> GdalRejects(j, job, Err("open", MsgLibrary))
    /\ UNCHANGED <<outside, uploadedFiles, fileItems, win, events>>

\* `await Gdal.getInfo(dataset)` settles
InfoSettles(j, ok) ==
    /\ jobs[j].pc = "info"
    /\ LET job == jobs[j] IN
       IF ok THEN Await(j, job, "translate", 70)
       ELSE GdalRejects(j, job, Err("info", MsgLibrary))
    /\ UNCHANGED <<outside, uploadedFiles, fileItems, win, events>>

\* `await Gdal.translate(dataset, translateOptions)` settles; the output is
\* written to the fixed outputPath
TranslateSettles(j, o) ==
    /\ jobs[j].pc = "translate"
    /\ LET job == jobs[j] IN
       CASE o = "ok" -> /\ Await(j, [job EXCEPT !.out = "open"], "bytes", 70)
                        /\ outputTif' = j
         [] o = "null" -> /\ GdalRejects(j, job, Err("translate", MsgTranslateFailed))
                          /\ UNCHANGED outputTif
         [] OTHER -> /\ GdalRejects(j, job, Err("translate", MsgLibrary))
                     /\ UNCHANGED outputTif
    /\ UNCHANGED <<outside, uploadedFiles, fileItems, gdalDefined, scriptsAppended,
                   initCalls, events>>

\* `await Gdal.getFileBytes(outputPath)` settles; new Blob([outputBytes]);
\* then the cleanup starts with Gdal.close(translatedDataset)
BytesSettles(j, o) ==
    /\ jobs[j].pc = "bytes"
    /\ LET job == jobs[j] IN
       CASE o = "ok" ->
                Await(j, [job EXCEPT !.blob = Blob(j, outputTif, "gdal")], "close1", 70)
         [] o = "empty" -> GdalRejects(j, job, Err("output", MsgOutputEmpty))
         [] OTHER -> GdalRejects(j, job, Err("output", MsgLibrary))
    /\ UNCHANGED <<outside, uploadedFiles, fileItems, win, events>>

\* `await Gdal.close(translatedDataset)` settles; a rejection is caught,
\* logged with console.warn, and the blob is returned
CloseOutSettles(j, ok) ==
    /\ jobs[j].pc = "close1"
    /\ LET job == jobs[j] IN
       IF ok THEN Await(j, [job EXCEPT !.out = "closed"], "close2", 70)
       ELSE GdalResolves(j, Raise(job, Err("cleanup", MsgLibrary)), job.blob)
    /\ UNCHANGED <<outside, uploadedFiles, fileItems, win, events>>

\* `await Gdal.close(dataset)` settles
CloseInSettles(j, ok) ==
    /\ jobs[j].pc = "close2"
    /\ LET job == jobs[j] IN
       IF ok THEN GdalResolves(j, [job EXCEPT !.ds = "closed"], job.blob)
       ELSE GdalResolves(j, Raise(job, Err("cleanup", MsgLibrary)), job.blob)
    /\ UNCHANGED <<outside, uploadedFiles, fileItems, win, events>>

\* ------------------------------------------------------------------ timer
\* variant of TimerFires: the callback shows the download section and
\* leaves the progress bar and the convert button as they are
TimerFiresKeepsProgress(j) ==
    /\ jobs[j].pc = "timer"
    /\ jobs' = [jobs EXCEPT ![j].pc = "done"]
    /\ downloadVisible' = TRUE
    /\ UNCHANGED <<outside, uploadedFiles, fileItems, convertedBlob, progressPercent,
                   progressVisible, convertBtnDisabled, downloadHref, errorVisible,
                   errorText, win, events>>

\* setTimeout(() => { hideProgress(); showDownload(); }, 1000)
TimerFires(j) ==
    /\ jobs[j].pc = "timer"
    /\ jobs' = [jobs EXCEPT ![j].pc = "done"]
    /\ progressVisible' = FALSE
    /\ convertBtnDisabled' = FALSE
    /\ downloadVisible' = TRUE
    /\ UNCHANGED <<outside, uploadedFiles, fileItems, convertedBlob, progressPercent,
                   downloadHref, errorVisible, errorText, win, events>>

\* ------------------------------------------------------ what a blob holds
\* a projection file among the files (prj.adf, optional)
hasPrj(files) == \E i \in 1..Len(files) : toLowerCase(files[i]) = "prj.adf"

\* the content of a blob a converter returned
TiffOf(blob) ==
    LET prj == hasPrj(jobs[blob.src].given) IN
    CASE blob.by = "simple" -> createSimpleTiff(disk[blob.src], rnd[blob.owner])
      [] blob.by = "basic" -> rawHeaderBlob(disk[blob.src])
      [] blob.by = "gdal" /\ convBuild = "translate" ->
            gdalTranslate(disk[blob.src], translateOptions, prj)
      [] blob.by = "gdal" /\ convBuild = "fs" ->
            createFloat32Copy(disk[blob.src], createOptions, prj)

\* ------------------------------------------------------------ next, spec
\* the page with src/app.js, or with its GDAL revision and src/converter.js
Next ==
    \/ \E sel \in Selections : HandleFiles(sel)
    \/ \E i \in 1..MaxSel : RemoveFile(i)
    \/ ClickConvert
    \/ \E j \in JobIds, ok \in BOOLEAN : ScriptSettles(j, ok)
    \/ \E j \in JobIds, ok \in BOOLEAN : InitGdalJsSettles(j, ok)
    \/ \E j \in JobIds, ok \in BOOLEAN : FileLoaded(j, ok)
    \/ \E j \in JobIds, ok \in BOOLEAN : FallbackFileLoaded(j, ok)
    \/ \E j \in JobIds, ok \in BOOLEAN : BasicFileLoaded(j, ok)
    \/ \E j \in JobIds, o \in {"ok", "empty", "reject"} : OpenSettles(j, o)
    \/ \E j \in JobIds, ok \in BOOLEAN : InfoSettles(j, ok)
    \/ \E j \in JobIds, o \in {"ok", "null", "reject"} : TranslateSettles(j, o)
    \/ \E j \in JobIds, o \in {"ok", "empty", "reject"} : BytesSettles(j, o)
    \/ \E j \in JobIds, ok \in BOOLEAN : CloseOutSettles(j, ok)
    \/ \E j \in JobIds, ok \in BOOLEAN : CloseInSettles(j, ok)
    \/ \E j \in JobIds : TimerFires(j)

Spec == Init /\ [][Next]_vars

\* the page with the GDAL revision of app.js and the "fs" revision of converter.js
NextFs ==
    \/ \E sel \in Selections : HandleFiles(sel)
    \/ \E i \in 1..MaxSel : RemoveFile(i)
    \/ ClickConvert
    \/ \E j \in JobIds, ok \in BOOLEAN : ScriptSettles(j, ok)
    \/ \E j \in JobIds, ok \in BOOLEAN : CtorScriptSettles(j, ok)
    \/ \E j \in JobIds, ok, mk \in BOOLEAN : GdalInstanceSettles(j, ok, mk)
    \/ \E j \in JobIds, ok \in BOOLEAN : FileLoaded(j, ok)
    \/ \E j \in JobIds, ok \in BOOLEAN : FallbackFileLoaded(j, ok)
    \/ \E j \in JobIds : TimerFires(j)

SpecFs == InitFs /\ [][NextFs]_vars

\* SimpleAdfReader.parseAdfFiles called directly, outside the page's flow
NextDirect ==
    \/ \E sel \in Selections : DirectParse(sel)
    \/ \E j \in JobIds, ok \in BOOLEAN : FallbackFileLoaded(j, ok)

\* src/converter.js loaded, any grid behind each call's files
InitDirect ==
    /\ appBuild = "gdal"
    /\ convBuild = "translate"
    /\ InitPage
    /\ disk \in [JobIds -> Grids]
    /\ rnd \in [JobIds -> [1..MaxPx -> RandomBytes]]
    /\ BatOff

SpecDirect == InitDirect /\ [][NextDirect]_vars

\* AdfToTiffConverter.convertAdfToTiff called directly, either revision
InitConvert ==
    /\ appBuild = "gdal"
    /\ convBuild \in {"translate", "fs"}
    /\ InitPage
    /\ OneGrid
    /\ BatOff

NextConvert ==
    \/ \E sel \in Selections : DirectConvert(sel)
    \/ \E j \in JobIds, ok \in BOOLEAN : ScriptSettles(j, ok)
    \/ \E j \in JobIds, ok \in BOOLEAN : CtorScriptSettles(j, ok)
    \/ \E j \in JobIds, ok \in BOOLEAN : InitGdalJsSettles(j, ok)
    \/ \E j \in JobIds, ok, mk \in BOOLEAN : GdalInstanceSettles(j, ok, mk)
    \/ \E j \in JobIds, ok \in BOOLEAN : FileLoaded(j, ok)
    \/ \E j \in JobIds, o \in {"ok", "empty", "reject"} : OpenSettles(j, o)
    \/ \E j \in JobIds, ok \in BOOLEAN : InfoSettles(j, ok)
    \/ \E j \in JobIds, o \in {"ok", "null", "reject"} : TranslateSettles(j, o)
    \/ \E j \in JobIds, o \in {"ok", "empty", "reject"} : BytesSettles(j, o)
    \/ \E j \in JobIds, ok \in BOOLEAN : CloseOutSettles(j, ok)
    \/ \E j \in JobIds, ok \in BOOLEAN : CloseInSettles(j, ok)

SpecConvert == InitConvert /\ [][NextConvert]_vars

\* ---------------------------------------- one conversion, any grid, any build
\* the first click on the convert button of a freshly loaded page
FirstConvert == Started = {} /\ ClickConvert

InitTiff ==
    /\ appBuild \in {"basic", "gdal"}
    /\ convBuild \in {"translate", "fs"}
    /\ appBuild = "basic" => convBuild = "translate"
    /\ InitPage
    /\ \E g \in Grids : disk = [j \in JobIds |-> g]
    /\ \E r \in [1..MaxPx -> RandomBytes] : rnd = [j \in JobIds |-> r]
    /\ BatOff

NextTiff ==
    \/ \E sel \in Selections : HandleFiles(sel)
    \/ \E i \in 1..MaxSel : RemoveFile(i)
    \/ FirstConvert
    \/ \E j \in JobIds, ok \in BOOLEAN : ScriptSettles(j, ok)
    \/ \E j \in JobIds, ok \in BOOLEAN : CtorScriptSettles(j, ok)
    \/ \E j \in JobIds, ok \in BOOLEAN : InitGdalJsSettles(j, ok)
    \/ \E j \in JobIds, ok, mk \in BOOLEAN : GdalInstanceSettles(j, ok, mk)
    \/ \E j \in JobIds, ok \in BOOLEAN : FileLoaded(j, ok)
    \/ \E j \in JobIds, ok \in BOOLEAN : FallbackFileLoaded(j, ok)
    \/ \E j \in JobIds, ok \in BOOLEAN : BasicFileLoaded(j, ok)
    \/ \E j \in JobIds, o \in {"ok", "empty", "reject"} : OpenSettles(j, o)
    \/ \E j \in JobIds, ok \in BOOLEAN : InfoSettles(j, ok)
    \/ \E j \in JobIds, o \in {"ok", "null", "reject"} : TranslateSettles(j, o)
    \/ \E j \in JobIds, o \in {"ok", "empty", "reject"} : BytesSettles(j, o)
    \/ \E j \in JobIds, ok \in BOOLEAN : CloseOutSettles(j, ok)
    \/ \E j \in JobIds, ok \in BOOLEAN : CloseInSettles(j, ok)
    \/ \E j \in JobIds : TimerFires(j)

SpecTiff == InitTiff /\ [][NextTiff]_vars

\* ------------------------------------------- the page, every await settling
\* the event that job j is waiting for arrives: the script element's load
\* or error event, the promise of a GDAL call settling, a FileReader's load
\* or error event, the completion timer
JobStep(j) ==
    \/ \E ok \in BOOLEAN : ScriptSettles(j, ok)
    \/ \E ok \in BOOLEAN : InitGdalJsSettles(j, ok)
    \/ \E ok \in BOOLEAN : FileLoaded(j, ok)
    \/ \E ok \in BOOLEAN : FallbackFileLoaded(j, ok)
    \/ \E ok \in BOOLEAN : BasicFileLoaded(j, ok)
    \/ \E o \in {"ok", "empty", "reject"} : OpenSettles(j, o)
    \/ \E ok \in BOOLEAN : InfoSettles(j, ok)
    \/ \E o \in {"ok", "null", "reject"} : TranslateSettles(j, o)
    \/ \E o \in {"ok", "empty", "reject"} : BytesSettles(j, o)
    \/ \E ok \in BOOLEAN : CloseOutSettles(j, ok)
    \/ \E ok \in BOOLEAN : CloseInSettles(j, ok)
    \/ TimerFires(j)

\* Spec, where no script load, file read, GDAL call or timer stays pending
\* for ever
SpecLive == Spec /\ \A j \in JobIds : WF_vars(JobStep(j))

\* ------------------------------------------------------- convert_adf.bat
page == <<uploadedFiles, fileItems, convertedBlob, ui, win, jobs, events>>

\* what %~1 can be: nothing, or the folder dropped on the file or typed
Folders == {"grid1", "C:/data/grid 2", "D:/gis/dem", "nosuchfolder"}

\* ERRORLEVEL the command interpreter has when the script starts
InheritedLevels == {0, 1, 2}

\* exit code of adf_to_geotiff.py: 0 on success, non-zero on any failure
ScriptExitCodes(result) == IF result = "ok" THEN {0} ELSE 1..MaxExit

\* lines 1-25: the banner, then `if "%~1"==""`: the usage text and pause,
\* or `echo Input` and the start of python; echo and if leave ERRORLEVEL alone
BatRun ==
    /\ batPc = "start"
    /\ batPc' = IF batArg = "" THEN "usage" ELSE "python"
    /\ UNCHANGED <<batArg, errorlevel, pyResult, build, disk, rnd, page>>

\* lines 17-18: a key ends the pause, then exit /b 1
BatUsageKey ==
    /\ batPc = "usage"
    /\ batPc' = "ended"
    /\ errorlevel' = 1
    /\ UNCHANGED <<batArg, pyResult, build, disk, rnd, page>>

\* line 25: python adf_to_geotiff.py "%~1" has ended, or python was not
\* found (the interpreter then sets 9009); then `echo.` and pause
PythonExits(result, code) ==
    /\ batPc = "python"
    /\ IF result = "notfound" THEN code = 9009 ELSE code \in ScriptExitCodes(result)
    /\ errorlevel' = code
    /\ pyResult' = result
    /\ batPc' = "pause"
    /\ UNCHANGED <<batArg, build, disk, rnd, page>>

\* variant of BatPauseKey: the script ends with exit /b 0
BatPauseKeyExitsZero ==
    /\ batPc = "pause"
    /\ batPc' = "ended"
    /\ errorlevel' = 0
    /\ UNCHANGED <<batArg, pyResult, build, disk, rnd, page>>

\* line 28: a key ends the pause and the script runs off its end: its exit
\* code is the ERRORLEVEL python left, which echo and pause do not set
BatPauseKey ==
    /\ batPc = "pause"
    /\ batPc' = "ended"
    /\ UNCHANGED <<batArg, errorlevel, pyResult, build, disk, rnd, page>>

InitBat ==
    /\ appBuild = "gdal"
    /\ convBuild = "translate"
    /\ InitPage
    /\ OneGrid
    /\ batPc = "start"
    /\ batArg \in {""} \cup Folders
    /\ errorlevel \in InheritedLevels
    /\ pyResult = "none"

NextBat ==
    \/ BatRun
    \/ BatUsageKey
    \/ \E result \in {"ok", "failed", "notfound"}, code \in 0..9009 :
            PythonExits(result, code)
    \/ BatPauseKey

SpecBat == InitBat /\ [][NextBat]_vars

\* ================================================================ claims
hasRasterData(files) == \E i \in 1..Len(files) : isRasterData(toLowerCase(files[i]))

IsMissingHeader(e) == e.message \in {<<MsgMissingHdr>>, <<MsgMissingHdrUI>>}

LastErr(job) == job.errs[Len(job.errs)]

\* C1 (as claimed): a call on a file set without hdr.adf (any case) fails
\* with the missing-header error, and no FileReader read was started and no
\* GDAL converter was made before that; for convertToTiff and for a direct
\* SimpleAdfReader.parseAdfFiles alike.
C1_MissingHeaderFailsBeforeAnyRead ==
    \A j \in Started :
        ~hasHdr(jobs[j].given) =>
            /\ jobs[j].pc \in {"failed", "rejected"}
            /\ IsMissingHeader(LastErr(jobs[j]))
            /\ jobs[j].reads = 0
            /\ ~jobs[j].gdal

\* C2 (as claimed): a conversion of a file set with hdr.adf but without
\* raster data ends in an error before any read or conversion step, and
\* gives no blob.
C2_NoRasterDataIsAnError ==
    \A j \in Started :
        (jobs[j].kind = "ui" /\ hasHdr(jobs[j].given) /\ ~hasRasterData(jobs[j].given)) =>
            /\ jobs[j].pc = "failed"
            /\ jobs[j].reads = 0
            /\ ~jobs[j].gdal
            /\ jobs[j].blob = NoBlob

\* C3: a conversion that fails stops at that step (a failed job never moves
\* again), and exposes nothing: the step that fails leaves convertedBlob,
\* the download link and the download section as they were, and neither
\* convertedBlob nor the link is ever a blob the failed job built.
C3_FailedJobExposesNothing ==
    /\ [](\A j \in JobIds :
            jobs[j].pc = "failed" =>
                convertedBlob.owner # j /\ downloadHref.owner # j)
    /\ [][\A j \in JobIds :
            IF jobs[j].pc = "failed"
            THEN /\ jobs'[j].pc = "failed"
                 /\ jobs'[j].reads = jobs[j].reads
                 /\ jobs'[j].blob = jobs[j].blob
            ELSE jobs'[j].pc = "failed" =>
                    /\ convertedBlob' = convertedBlob
                    /\ downloadHref' = downloadHref
                    /\ downloadVisible' = downloadVisible]_vars

\* C3 witness: a job failed after both converters had run, while the blob
\* and the link of an earlier, finished conversion are on display.
C3_Witness ==
    \E j, k \in JobIds :
        /\ k < j
        /\ jobs[k].pc = "done"
        /\ jobs[j].pc = "failed"
        /\ jobs[j].gdal
        /\ Len(jobs[j].errs) >= 2
        /\ downloadVisible
        /\ convertedBlob.owner = k
        /\ downloadHref = convertedBlob

\* stages of the GDAL converter: an error raised there sends the job to the fallback
GdalStages == {"load", "init", "read", "open", "info", "translate", "output",
               "create", "copy", "close"}

\* errors that are caught and only logged (console.warn), or never caught
LoggedStages == {"cleanup", "mkdir", "ctor"}

HasErr(job, stages) == \E i \in 1..Len(job.errs) : job.errs[i].stage \in stages

C5_FallbackAlwaysCompletes ==
    \A j \in JobIds :
        (jobs[j].kind = "ui" /\ jobs[j].gdal /\ jobs[j].pc = "failed") =>
            \E i \in 1..Len(jobs[j].errs) : jobs[j].errs[i].type = "Event"

\* C6 (as claimed): jobs that overlap share nothing: the blob a job gets
\* holds the raster of its own files, and when a job's completion timer
\* shows the download section the link is that job's blob.
C6_JobsShareNothing ==
    /\ [](\A j \in JobIds : jobs[j].blob # NoBlob => jobs[j].blob.src = j)
    /\ [][\A j \in JobIds :
            (jobs[j].pc = "timer" /\ jobs'[j].pc = "done") =>
                downloadHref'.owner = j]_vars

\* the call of convertAdfToTiff the job made has settled
GdalCallSettled(job) ==
    job.gdal /\ job.pc \in {"fb_read", "timer", "done", "failed"}

\* C7 (as claimed): when a call of convertAdfToTiff has settled, resolved
\* or rejected, every dataset it opened or created has been closed.
C7_DatasetsClosedOnce ==
    \A j \in JobIds :
        GdalCallSettled(jobs[j]) =>
            jobs[j].ds \in {"none", "closed"} /\ jobs[j].out \in {"none", "closed"}

Carries(text, e) ==
    /\ e.message # <<>>
    /\ \A m \in Range(e.message) : m \in Range(text)

\* C9 (as claimed): at the step where a job fails, the message shown holds
\* the message of the first error raised in that job.
C9_FirstErrorSurfaced ==
    [][\A j \in JobIds :
        (jobs[j].pc # "failed" /\ jobs'[j].pc = "failed") =>
            /\ errorVisible'
            /\ Carries(errorText', Head(jobs'[j].errs))]_vars

\* the message names a file
NamesFile(m) == m \in {MsgMissingHdrUI, MsgMissingHdr}

\* C10 (as claimed): every message showError displays names the file or
\* tile the failure is about.
C10_MessagesNameTheFile ==
    errorVisible => \E i \in 1..Len(errorText) : NamesFile(errorText[i])

\* a call of convertToTiff that has not finished: its catch block has not
\* run and its completion timer has not run hideProgress
InProgress(j) ==
    jobs[j].kind = "ui" /\ jobs[j].pc \notin {"idle", "failed", "done"}

\* C17 (as claimed): at most one conversion is in progress, and while one
\* is, the convert button is disabled and the progress container visible.
C17_OneJobAtATime ==
    /\ Cardinality({j \in JobIds : InProgress(j)}) <= 1
    /\ (\E j \in JobIds : InProgress(j)) => (convertBtnDisabled /\ progressVisible)

\* C18 (as claimed): a job reads the files uploadedFiles held when it was
\* started, in order: the file a pending read is reading is the idx-th of
\* them, and when the GDAL converter's loop is over it has read them all.
C18_JobFilesFixedAtStart ==
    \A j \in JobIds :
        (jobs[j].kind = "ui" /\ jobs[j].gdal) =>
            /\ jobs[j].pc \in {"read", "fb_read"} =>
                  /\ jobs[j].idx <= Len(jobs[j].given)
                  /\ jobs[j].cur = jobs[j].given[jobs[j].idx]
            /\ jobs[j].pc \in {"open", "info", "translate", "bytes", "close1", "close2"} =>
                  jobs[j].names = Range(jobs[j].given)

\* C19 (as claimed): over all jobs the GDAL script element is appended at
\* most once and initGdalJs is invoked at most once.
C19_GdalLoadedOnce ==
    scriptsAppended <= 1 /\ initCalls <= 1

\* C20 (as claimed): while no conversion is in progress the convert button
\* is enabled exactly when uploadedFiles is not empty.
C20_ButtonEnabledIffFiles ==
    (\A j \in JobIds : ~InProgress(j)) =>
        (~convertBtnDisabled <=> Len(uploadedFiles) > 0)

\* the conversion attempt started last
MostRecent == CHOOSE j \in Started : \A k \in Started : k <= j

\* C21 (as claimed): the error message and the download section are never
\* visible together, and while the download section is visible, once the
\* attempt started last has ended the download link is its output.
C21_DownloadIsOfLatestAttempt ==
    /\ ~(errorVisible /\ downloadVisible)
    /\ (downloadVisible /\ jobs[MostRecent].pc \in {"failed", "timer", "done"}) =>
            /\ jobs[MostRecent].pc # "failed"
            /\ downloadHref = jobs[MostRecent].blob

\* C22 (as claimed): during a conversion job the percentage shown never
\* goes down, whichever path the job takes, and it is 100 only once the job
\* holds an output blob.
C22_ProgressNeverDecreases ==
    /\ [][progressPercent' >= progressPercent]_vars
    /\ [](progressPercent = 100 =>
            \E j \in JobIds : jobs[j].blob # NoBlob /\ convertedBlob = jobs[j].blob)

\* C23: with every script load, file read, GDAL call and timer settling,
\* every call of convertToTiff ends, in "done" or in "failed", and stays
\* there; the step that ends it runs hideProgress (progress container
\* hidden, convert button enabled) and either shows the download section,
\* leaving the error message alone, or shows the error, leaving the
\* download section alone.
C23_EveryJobFinishes ==
    /\ \A j \in JobIds :
            (jobs[j].kind = "ui" /\ jobs[j].pc # "idle")
                ~> (jobs[j].pc \in {"done", "failed"})
    /\ [][\A j \in JobIds :
            IF jobs[j].pc \in {"done", "failed"}
            THEN jobs'[j].pc = jobs[j].pc
            ELSE jobs'[j].pc \in {"done", "failed"} =>
                    /\ ~progressVisible'
                    /\ ~convertBtnDisabled'
                    /\ jobs'[j].pc = "done" =>
                            /\ downloadVisible'
                            /\ errorVisible' = errorVisible
                            /\ errorText' = errorText
                    /\ jobs'[j].pc = "failed" =>
                            /\ errorVisible'
                            /\ Head(errorText') = MsgErrorConverting
                            /\ downloadVisible' = downloadVisible]_vars

\* C23 witness: one call ended with the download shown after the GDAL
\* converter ran to its end, another ended in an error after the fallback.
C23_Witness ==
    \E j, k \in JobIds :
        /\ jobs[j].pc = "done" /\ jobs[j].blob.by = "gdal"
        /\ jobs[k].pc = "failed" /\ HasErr(jobs[k], {"fallback"})
        /\ ~progressVisible
        /\ ~convertBtnDisabled

\* the error that made the job's GDAL converter fail: the last one of a GDAL stage
GdalError(job) ==
    job.errs[CHOOSE i \in 1..Len(job.errs) :
                /\ job.errs[i].stage \in GdalStages
                /\ \A k \in (i + 1)..Len(job.errs) : job.errs[k].stage \notin GdalStages]

\* C24 (as claimed): whatever convertAdfToTiff rejects with is an Error
\* whose message is 'GDAL conversion failed: ' followed by the message of
\* the error that made it fail (as error.message reads it).
C24_RejectionsAreWrapped ==
    \A j \in JobIds :
        jobs[j].rej # NoRej =>
            /\ jobs[j].rej.type = "Error"
            /\ jobs[j].rej.message = <<MsgGdalFailed>> \o MessageOf(GdalError(jobs[j]))

\* the files of sel whose lower-cased name ends in '.adf', in the order of sel
AdfSubsequence(sel) ==
    LET idx == {i \in 1..Len(sel) : endsWithAdf(toLowerCase(sel[i]))}
        nth(k) == CHOOSE i \in idx : Cardinality({m \in idx : m < i}) = k - 1
    IN  [k \in 1..Cardinality(idx) |-> sel[nth(k)]]

\* C25: a step handleFiles(sel) on a selection holding at least one file
\* whose lower-cased name ends in '.adf' leaves in uploadedFiles exactly
\* those files of sel, in order, whatever was selected before; the convert
\* button is enabled and the error message hidden.
C25_HandleFilesKeepsAdfFiles ==
    [][\A sel \in Selections :
        (HandleFiles(sel) /\ AdfSubsequence(sel) # <<>>) =>
            /\ uploadedFiles' = AdfSubsequence(sel)
            /\ ~convertBtnDisabled'
            /\ ~errorVisible']_vars

\* C25 witness: after a selection without ADF files had put up the error, a
\* second selection left two ADF files, one with an upper-case name, the
\* button enabled and the error hidden.
C25_Witness ==
    /\ events = 2
    /\ uploadedFiles = <<"HDR.ADF", "w001001.adf">>
    /\ errorText = <<MsgSelectValid>>
    /\ ~errorVisible
    /\ ~convertBtnDisabled

\* ---------------------------------------------------- reading a TIFF back
\* a little-endian 16-bit / 32-bit unsigned value at byte offset off
getUint16(b, off) == b[off + 1] + 256 * b[off + 2]
getUint32(b, off) ==
    b[off + 1] + 256 * b[off + 2] + 65536 * b[off + 3] + (2^24) * b[off + 4]

\* the file starts with 'II' and 42: a little-endian classic TIFF
IsLittleEndianTiff(t) ==
    /\ Len(t.bytes) >= 8
    /\ getUint16(t.bytes, 0) = 18761
    /\ getUint16(t.bytes, 2) = 42

\* the value of a tag of the first IFD, -1 if the IFD does not have it
TagValue(t, tag) ==
    LET b == t.bytes
        off == getUint32(b, 4)
        n == getUint16(b, off)
        hits == {i \in 0..(n - 1) : getUint16(b, off + 2 + 12 * i) = tag}
    IN  IF hits = {} THEN -1
        ELSE getUint32(b, off + 2 + 12 * (CHOOSE i \in hits : TRUE) + 8)

\* the blob on offer: what the download link refers to once a job succeeded
Offered == downloadHref # NoBlob

\* C11 (as claimed): every blob offered for download is a little-endian
\* TIFF (II, 42), tiled (TileWidth and TileLength present) and LZW
\* compressed (Compression = 5), whichever path produced it.
C11_OutputIsTiledLzwTiff ==
    Offered =>
        LET t == TiffOf(downloadHref) IN
        /\ IsLittleEndianTiff(t)
        /\ TagValue(t, 322) # -1
        /\ TagValue(t, 323) # -1
        /\ TagValue(t, 259) = 5

\* C12 (as claimed): the pixel values stored in the output are the pixel
\* values of the raster the job was given.
C12_PixelsRoundTrip ==
    Offered =>
        TiffOf(downloadHref).px = disk[downloadHref.owner].px

\* C13 (as claimed): ImageWidth and ImageLength of the output are the
\* column and row counts of the input raster.
C13_TagsReportTrueDimensions ==
    Offered =>
        LET t == TiffOf(downloadHref)
            grid == disk[downloadHref.owner]
        IN  /\ IsLittleEndianTiff(t)
            /\ TagValue(t, 256) = grid.cols
            /\ TagValue(t, 257) = grid.rows

\* the job told its caller or user that the output has no spatial
\* reference: the console.warn after the fallback, the console.log of the
\* (empty) projection string, or a message on the page
SrsReported(j) ==
    \/ jobs[j].blob.by = "simple"
    \/ jobs[j].blob.by = "gdal" /\ convBuild = "fs"
    \/ errorVisible

\* C14 (as claimed): a job on a file set without prj.adf that succeeds
\* returns output whose spatial reference is unset, and whenever the output
\* of a successful job has no spatial reference the job reported it.
C14_MissingProjectionReported ==
    \A j \in JobIds :
        (jobs[j].kind = "ui" /\ jobs[j].pc \in {"timer", "done"}) =>
            /\ ~hasPrj(jobs[j].given) => TiffOf(jobs[j].blob).srs = "unset"
            /\ TiffOf(jobs[j].blob).srs = "unset" => SrsReported(j)

\* C15: when convert_adf.bat has ended its exit code is 0 exactly when a
\* folder was given and the conversion succeeded.
C15_ExitCodeTellsOutcome ==
    batPc = "ended" =>
        (errorlevel = 0 <=> (batArg # "" /\ pyResult = "ok"))

\* C15 witness: the script was given a folder, the conversion failed, and
\* the script ended with an exit code that is not 0.
C15_Witness ==
    /\ batPc = "ended"
    /\ batArg \in Folders
    /\ pyResult = "failed"
    /\ errorlevel # 0

====
